---- MODULE Spec2Model ----
(***************************************************************************)
(* Model of src/src/services/atem-connection.ts: the device-link           *)
(* lifecycle (connectAtem / disconnectAtem and the link's event handlers), *)
(* the audio level tracker, and the active-speaker auto-switch engine.     *)
(*                                                                         *)
(* Levels are hundredths of a dB (integers).  The smoothed level is kept   *)
(* multiplied by Scale so that the EMA  0.3*peak + 0.7*smoothed  stays an  *)
(* exact integer for as many samples as the model ingests.                 *)
(* connectPromise (read only by waitForConnection) is outside the engine   *)
(* and is not part of the model.                                           *)
(***************************************************************************)
EXTENDS Integers, Sequences, FiniteSets, TLC

VARIABLES
    now,                 \* Date.now()
    atemInstance,        \* module variable: link handle or NULL
    isConnected,         \* module variable
    levelTrackingActive, \* module variable
    audioLevels,         \* the Map, as a sequence of entries in insertion order
    autoSwitch,          \* module variable: handle of the active run or NULL
    timers,              \* live setInterval timers: handle -> run state + closure
    links,               \* the Atem objects created so far (external collaborator)
    calls,               \* connectAtem/disconnectAtem calls awaiting disconnect()
    sent,                \* log of commands handed to a link, in dispatch order
    thens,               \* indices in sent of changePreviewInput promises not settled
    samplesSeen,         \* number of samples recorded so far (listener runs)
    runsStarted,         \* number of runs started so far
    last,                \* the most recent call or callback and what it returned
    inProgress           \* the callbacks begun and not yet returned

vars == <<now, atemInstance, isConnected, levelTrackingActive, audioLevels,
          autoSwitch, timers, links, calls, sent, thens, samplesSeen,
          runsStarted, last, inProgress>>

---------------------------------------------------------------------------
(* Bounds of the model *)

StartClock == 1000
MaxSamples == 2
MaxRuns == 2
MaxListeners == 2
MaxQuanta == 2
LifecycleSamples == 1
CooldownQuanta == 5
MarginQuanta == 4
StaleQuanta == 6
ModesQuanta == 4
StopQuanta == 3
ScenarioPolls == 13
ReconnectQuanta == 3
ProgramQuanta == 3
FailureQuanta == 3
RelistenQuanta == 1
TieQuanta == 4
AtomicQuanta == 2
HostQuanta == 2
QuietQuanta == 3
StickyQuanta == 6
OutsiderQuanta == 4
BoxQuanta == 4

(* Program constants *)

SAMPLE_WINDOW_SIZE == 12
LEVEL_WINDOW_MS == 5000
SILENCE_THRESHOLD == -5000
EmaAlphaTenths == 3
SilentLevel == -10000
StickinessMargin == 200
SuperSourceInput == 6000
DefaultHost == 7
DefaultHoldMs == 1000
DefaultIntervalMs == 250
DefaultCooldownMs == 2000
DefaultMe == 0
DefaultSsrcBox == 1
DefaultSsrcId == 0

NULL == -1
Max(a, b) == IF a >= b THEN a ELSE b
Undefined == <<NULL>>

RECURSIVE Pow10(_)
Pow10(n) == IF n = 0 THEN 1 ELSE 10 * Pow10(n - 1)

(* Smoothed levels are stored times Scale: one decimal digit per EMA step. *)
Scale == Pow10(MaxSamples)
Quantum == 4 * DefaultIntervalMs


---------------------------------------------------------------------------
(* Level tracker *)

HasLevel(input) == \E k \in 1..Len(audioLevels) : audioLevels[k].input = input

LevelOf(input) ==
    audioLevels[CHOOSE k \in 1..Len(audioLevels) : audioLevels[k].input = input]

Stale(data) == now - data.lastUpdate > LEVEL_WINDOW_MS

(* samples.push(peak); if (samples.length > SAMPLE_WINDOW_SIZE) samples.shift() *)
PushSample(samples, peak) ==
    LET pushed == Append(samples, peak)
    IN  IF Len(pushed) > SAMPLE_WINDOW_SIZE THEN Tail(pushed) ELSE pushed

(* EMA_ALPHA * peak + (1 - EMA_ALPHA) * smoothedLevel, on values times Scale *)
EmaMissingOldTerm(peak, smoothed) == (EmaAlphaTenths * peak * Scale) \div 10

Ema(peak, smoothed) ==
    (EmaAlphaTenths * peak * Scale + (10 - EmaAlphaTenths) * smoothed) \div 10

(* One run of the 'levelChanged' listener on the map `levels'. *)
LevelListener(levels, type, index, left, right) ==
    IF type # "source" THEN levels
    ELSE LET peak == Max(left, right)
             hit  == {k \in 1..Len(levels) : levels[k].input = index}
         IN  IF hit # {}
             THEN [k \in 1..Len(levels) |->
                     IF k \in hit
                     THEN [input         |-> index,
                           samples       |-> PushSample(levels[k].samples, peak),
                           smoothedLevel |-> Ema(peak, levels[k].smoothedLevel),
                           recentPeak    |-> peak,
                           lastUpdate    |-> now]
                     ELSE levels[k]]
             ELSE Append(levels, [input         |-> index,
                                  samples       |-> <<peak>>,
                                  smoothedLevel |-> peak * Scale,
                                  recentPeak    |-> peak,
                                  lastUpdate    |-> now])

RECURSIVE Deliver(_, _, _, _, _, _)
Deliver(n, levels, type, index, left, right) ==
    IF n = 0 THEN levels
    ELSE Deliver(n - 1, LevelListener(levels, type, index, left, right),
                 type, index, left, right)

getInstantaneousPeakAnyAge(inputIndex) ==
    IF ~HasLevel(inputIndex) THEN SilentLevel ELSE LevelOf(inputIndex).recentPeak

getInstantaneousPeak(inputIndex) ==
    IF ~HasLevel(inputIndex) \/ Stale(LevelOf(inputIndex))
    THEN SilentLevel
    ELSE LevelOf(inputIndex).recentPeak

getSmoothedLevel(inputIndex) ==
    IF ~HasLevel(inputIndex) \/ Stale(LevelOf(inputIndex))
    THEN SilentLevel * Scale
    ELSE LevelOf(inputIndex).smoothedLevel

(* results.sort((a, b) => b.level - a.level): a stable sort, as insertion. *)
RECURSIVE InsertByLevel(_, _)
InsertByLevel(sorted, e) ==
    IF sorted = <<>> THEN <<e>>
    ELSE IF e.level > sorted[Len(sorted)].level
         THEN Append(InsertByLevel(SubSeq(sorted, 1, Len(sorted) - 1), e),
                     sorted[Len(sorted)])
         ELSE Append(sorted, e)

RECURSIVE SortByLevel(_)
SortByLevel(results) ==
    IF results = <<>> THEN <<>>
    ELSE InsertByLevel(SortByLevel(SubSeq(results, 1, Len(results) - 1)),
                       results[Len(results)])

InList(list, x) == \E k \in 1..Len(list) : list[k] = x

(* candidateInputs = Undefined stands for an omitted argument. *)
getActiveInputsByAudioLevel(candidateInputs, includeAll) ==
    LET Keep(data) ==
            /\ ~Stale(data)
            /\ (candidateInputs = Undefined \/ InList(candidateInputs, data.input))
            /\ (includeAll \/ data.smoothedLevel > SILENCE_THRESHOLD * Scale)
        kept == SelectSeq(audioLevels, Keep)
        results == [k \in 1..Len(kept) |->
                      [input |-> kept[k].input, level |-> kept[k].smoothedLevel]]
    IN  SortByLevel(results)

---------------------------------------------------------------------------
(* Auto-switch engine *)

OrElse(v, d) == IF v = NULL THEN d ELSE v

AllInputs == <<1, 2, 3, 4, 5, 6, 7, 8>>

(* options.candidates ?? (mode === 'host_ssrc' ? [1..8] : [1..8].filter(i => i !== host)) *)
CandidatesOf(options) ==
    LET host == OrElse(options.hostInput, DefaultHost)
        mode == IF options.mode = "undefined" THEN "program" ELSE options.mode
        NotHost(i) == i # host
    IN  IF options.candidates # Undefined THEN options.candidates
        ELSE IF mode = "host_ssrc" THEN AllInputs
        ELSE SelectSeq(AllInputs, NotHost)

(* The state object and the closure variables of a run that starts now. *)
NewRun(options) ==
    [candidates     |-> CandidatesOf(options),
     hostInput      |-> OrElse(options.hostInput, DefaultHost),
     currentSpeaker |-> NULL,
     holdMs         |-> OrElse(options.holdMs, DefaultHoldMs),
     intervalMs     |-> OrElse(options.intervalMs, DefaultIntervalMs),
     cooldownMs     |-> OrElse(options.cooldownMs, DefaultCooldownMs),
     me             |-> OrElse(options.me, DefaultMe),
     transition     |-> IF options.transition = "undefined" THEN "cut"
                        ELSE options.transition,
     switchCount    |-> 0,
     startedAt      |-> now,
     lastSwitchAt   |-> 0,
     mode           |-> IF options.mode = "undefined" THEN "program" ELSE options.mode,
     ssrcBox        |-> OrElse(options.ssrcBox, DefaultSsrcBox),
     ssrcId         |-> OrElse(options.ssrcId, DefaultSsrcId),
     pendingSpeaker |-> NULL,
     pendingSince   |-> 0,
     nextFire       |-> now + OrElse(options.intervalMs, DefaultIntervalMs),
     unbroken       |-> TRUE]

(* Lines 280-290: the scan for the loudest candidate, in list order. *)
RECURSIVE Scan(_, _, _, _)
Scan(candidates, k, loudestInput, loudestPeak) ==
    IF k > Len(candidates)
    THEN [input |-> loudestInput, peak |-> loudestPeak]
    ELSE LET peak == getInstantaneousPeak(candidates[k])
         IN  IF peak > loudestPeak
             THEN Scan(candidates, k + 1, candidates[k], peak)
             ELSE Scan(candidates, k + 1, loudestInput, loudestPeak)

LoudestOfAll(candidates) == Scan(AllInputs, 1, NULL, SILENCE_THRESHOLD)

Loudest(candidates) == Scan(candidates, 1, NULL, SILENCE_THRESHOLD)

InCooldownNever(st) == FALSE

InCooldownHalf(st) ==
    st.lastSwitchAt > 0 /\ now - st.lastSwitchAt < st.cooldownMs \div 2

InCooldown(st) == st.lastSwitchAt > 0 /\ now - st.lastSwitchAt < st.cooldownMs

StickyAtMargin(st, loudestPeak) ==
    /\ st.currentSpeaker # NULL
    /\ getSmoothedLevel(st.currentSpeaker) > SILENCE_THRESHOLD * Scale
    /\ loudestPeak * Scale - getSmoothedLevel(st.currentSpeaker)
           <= StickinessMargin * Scale

StickyWhileSilent(st, loudestPeak) ==
    /\ st.currentSpeaker # NULL
    /\ loudestPeak * Scale - getSmoothedLevel(st.currentSpeaker)
           < StickinessMargin * Scale

(* Line 313: the challenger is not louder by the margin. *)
Sticky(st, loudestPeak) ==
    /\ st.currentSpeaker # NULL
    /\ getSmoothedLevel(st.currentSpeaker) > SILENCE_THRESHOLD * Scale
    /\ loudestPeak * Scale - getSmoothedLevel(st.currentSpeaker)
           < StickinessMargin * Scale

HoldElapsedStrict(st) == now - st.pendingSince > st.holdMs

HoldElapsed(st) == now - st.pendingSince >= st.holdMs

DispatchProgramFirst(st, run, speaker) ==
    LET program(src) == [op |-> "changeProgramInput", source |-> src, me |-> st.me,
                         box |-> NULL, ssrcId |-> NULL,
                         link |-> atemInstance, run |-> run]
        box(src)     == [op |-> "setSuperSourceBoxSettings", source |-> src,
                         me |-> NULL, box |-> st.ssrcBox, ssrcId |-> st.ssrcId,
                         link |-> atemInstance, run |-> run]
    IN  IF speaker = st.hostInput
        THEN <<program(speaker)>>
        ELSE <<program(SuperSourceInput), box(speaker)>>

DispatchTransitionAtOnce(st, run, speaker) ==
    LET cmd(op, src) == [op |-> op, source |-> src, me |-> st.me,
                         box |-> NULL, ssrcId |-> NULL,
                         link |-> atemInstance, run |-> run]
    IN  IF st.transition = "auto"
        THEN <<cmd("changePreviewInput", speaker), cmd("autoTransition", NULL)>>
        ELSE <<cmd("changeProgramInput", speaker)>>

DispatchBoxAndProgram(st, run, speaker) ==
    <<[op |-> "setSuperSourceBoxSettings", source |-> speaker,
       me |-> NULL, box |-> st.ssrcBox, ssrcId |-> st.ssrcId,
       link |-> atemInstance, run |-> run],
      [op |-> "changeProgramInput", source |-> speaker, me |-> st.me,
       box |-> NULL, ssrcId |-> NULL, link |-> atemInstance, run |-> run]>>

DispatchNothing(st, run, speaker) == <<>>

DispatchPrevious(st, run, speaker) ==
    <<[op |-> "changeProgramInput", source |-> st.currentSpeaker, me |-> st.me,
       box |-> NULL, ssrcId |-> NULL, link |-> atemInstance, run |-> run]>>

(* The commands of lines 337-371 for a confirmed switch, in call order. *)
Dispatch(st, run, speaker) ==
    LET program(src) == [op |-> "changeProgramInput", source |-> src, me |-> st.me,
                         box |-> NULL, ssrcId |-> NULL,
                         link |-> atemInstance, run |-> run]
        preview(src) == [op |-> "changePreviewInput", source |-> src, me |-> st.me,
                         box |-> NULL, ssrcId |-> NULL,
                         link |-> atemInstance, run |-> run]
        box(src)     == [op |-> "setSuperSourceBoxSettings", source |-> src,
                         me |-> NULL, box |-> st.ssrcBox, ssrcId |-> st.ssrcId,
                         link |-> atemInstance, run |-> run]
    IN  IF st.mode = "host_ssrc"
        THEN IF speaker = st.hostInput
             THEN <<program(speaker)>>
             ELSE <<box(speaker), program(SuperSourceInput)>>
        ELSE IF st.mode = "ssrc_box"
        THEN <<box(speaker)>>
        ELSE IF st.transition = "auto"
        THEN <<preview(speaker)>>
        ELSE <<program(speaker)>>

SwitchedUnstamped(s, input) ==
    [s EXCEPT !.currentSpeaker = input, !.switchCount = s.switchCount + 1]

(* Lines 330-332: currentSpeaker = loudestInput; switchCount++; lastSwitchAt = now *)
Switched(s, input) ==
    [s EXCEPT !.currentSpeaker = input,
              !.switchCount = s.switchCount + 1,
              !.lastSwitchAt = now]

(* One firing of the interval callback of run `run' (lines 272-373):       *)
(* the branch taken, the run afterwards and the commands dispatched.       *)
PollTick(run) ==
    LET st   == timers[run]
        loud == Loudest(st.candidates)
        (* history: the pending candidate was not the loudest at this firing *)
        seen == [st EXCEPT !.nextFire = now + st.intervalMs,
                           !.unbroken = st.unbroken /\
                               (st.pendingSpeaker = NULL \/
                                loud.input = st.pendingSpeaker)]
        quiet(branch, s) == [branch |-> branch, run |-> s, cmds |-> <<>>]
        clear(s) == [s EXCEPT !.pendingSpeaker = NULL, !.unbroken = TRUE]
    IN  IF atemInstance = NULL \/ ~isConnected
        THEN quiet("notConnected", seen)
        ELSE IF InCooldown(st)
        THEN quiet("cooldown", seen)
        ELSE IF loud.input = NULL
        THEN quiet("silence", clear(seen))
        ELSE IF loud.input = st.currentSpeaker
        THEN quiet("alreadyCurrent", clear(seen))
        ELSE IF Sticky(st, loud.peak)
        THEN quiet("sticky", clear(seen))
        ELSE IF loud.input # st.pendingSpeaker
        THEN quiet("pending", [seen EXCEPT !.pendingSpeaker = loud.input,
                                           !.pendingSince = now,
                                           !.unbroken = TRUE])
        ELSE IF HoldElapsed(st)
        THEN [branch |-> "switch",
              run    |-> clear(Switched(seen, loud.input)),
              cmds   |-> Dispatch(st, run, loud.input)]
        ELSE quiet("holding", seen)

---------------------------------------------------------------------------
(* What a call or callback reports: its name, its result and, where it has  *)
(* one, a number (a count).                                                 *)

Tell(op, ret) == [op |-> op, ret |-> ret, count |-> NULL]
TellCount(op, ret, n) == [op |-> op, ret |-> ret, count |-> n]
Quiet == Tell("event", "ok")

(* The callbacks that have begun and not returned: the listener run (pc is  *)
(* the next of its writes, 0 when none is running) and the tick (run is the *)
(* handle of its timer, NULL when none is running; levels is the map as the *)
(* tick read it).                                                           *)
NoListener == [index |-> NULL, peak |-> 0, pc |-> 0]
NoTick == [run |-> NULL, levels |-> <<>>]
NoneInProgress == [listener |-> NoListener, tick |-> NoTick]

NoTimers == [h \in {} |-> NULL]

Opt(cands, host, hold, cooldown, transition, mode) ==
    [candidates |-> cands, hostInput |-> host, holdMs |-> hold,
     intervalMs |-> NULL, cooldownMs |-> cooldown, me |-> NULL,
     transition |-> transition, mode |-> mode, ssrcBox |-> NULL, ssrcId |-> NULL]

---------------------------------------------------------------------------
(* Initial state: the module just loaded. *)

Init ==
    /\ now = StartClock
    /\ atemInstance = NULL
    /\ isConnected = FALSE
    /\ levelTrackingActive = FALSE
    /\ audioLevels = <<>>
    /\ autoSwitch = NULL
    /\ timers = NoTimers
    /\ links = <<>>
    /\ calls = {}
    /\ sent = <<>>
    /\ thens = {}
    /\ samplesSeen = 0
    /\ runsStarted = 0
    /\ last = Tell("load", "ok")
    /\ inProgress = NoneInProgress

---------------------------------------------------------------------------
(* The clock *)

Advance(d) ==
    /\ now' = now + d
    /\ last' = Quiet
    /\ UNCHANGED <<inProgress, atemInstance, isConnected, levelTrackingActive, audioLevels,
                   autoSwitch, timers, links, calls, sent, thens, samplesSeen,
                   runsStarted>>

---------------------------------------------------------------------------
(* startAutoSwitch / stopAutoSwitch / the interval callback *)

StartGuardNoRunCheck ==
    IF atemInstance = NULL \/ ~isConnected THEN "notConnected"
    ELSE IF ~levelTrackingActive THEN "notTracking"
    ELSE "started"

StartGuardNoTracking ==
    IF autoSwitch # NULL THEN "alreadyRunning"
    ELSE IF atemInstance = NULL \/ ~isConnected THEN "notConnected"
    ELSE "started"

StartGuard ==
    IF autoSwitch # NULL THEN "alreadyRunning"
    ELSE IF atemInstance = NULL \/ ~isConnected THEN "notConnected"
    ELSE IF ~levelTrackingActive THEN "notTracking"
    ELSE "started"

(* setInterval returns a fresh handle; the state object is stored under it. *)
StartAutoSwitch(options) ==
    /\ last' = Tell("startAutoSwitch", StartGuard)
    /\ IF StartGuard = "started"
       THEN /\ timers' = (runsStarted + 1 :> NewRun(options)) @@ timers
            /\ autoSwitch' = runsStarted + 1
            /\ runsStarted' = runsStarted + 1
       ELSE UNCHANGED <<timers, autoSwitch, runsStarted>>
    /\ UNCHANGED <<inProgress, now, atemInstance, isConnected, levelTrackingActive,
                   audioLevels, links, calls, sent, thens, samplesSeen>>

Without(f, x) == [y \in DOMAIN f \ {x} |-> f[y]]

ClearRunKeepsTimer == /\ timers' = timers
                      /\ autoSwitch' = NULL

(* clearInterval(autoSwitch.timer); autoSwitch = null *)
ClearRun == /\ timers' = Without(timers, autoSwitch)
            /\ autoSwitch' = NULL

StopAutoSwitch ==
    /\ IF autoSwitch = NULL
       THEN /\ last' = Tell("stopAutoSwitch", "notRunning")
            /\ UNCHANGED <<timers, autoSwitch>>
       ELSE /\ last' = TellCount("stopAutoSwitch", "stopped",
                                 timers[autoSwitch].switchCount)
            /\ ClearRun
    /\ UNCHANGED <<inProgress, now, atemInstance, isConnected, levelTrackingActive,
                   audioLevels, links, calls, sent, thens, samplesSeen,
                   runsStarted>>

getAutoSwitchStatusNoNullTest ==
    [running |-> TRUE, currentSpeaker |-> NULL, switchCount |-> 0]

(* getAutoSwitchStatus (lines 409-438); NULL stands for undefined and for   *)
(* null, Math.round of a non-negative quotient is rounding half up.         *)
getAutoSwitchStatus ==
    IF autoSwitch = NULL THEN [running |-> FALSE]
    ELSE LET st == timers[autoSwitch]
         IN  [running           |-> TRUE,
              candidates        |-> st.candidates,
              hostInput         |-> st.hostInput,
              holdMs            |-> st.holdMs,
              cooldownMs        |-> st.cooldownMs,
              intervalMs        |-> st.intervalMs,
              transition        |-> st.transition,
              currentSpeaker    |-> st.currentSpeaker,
              switchCount       |-> st.switchCount,
              runningForSeconds |-> (now - st.startedAt + 500) \div 1000,
              mode              |-> st.mode,
              ssrcBox           |-> IF st.mode \in {"ssrc_box", "host_ssrc"}
                                    THEN st.ssrcBox ELSE NULL]

TimerFire(run) ==
    /\ run \in DOMAIN timers
    /\ now >= timers[run].nextFire
    /\ LET tick == PollTick(run)
       IN  /\ timers' = [timers EXCEPT ![run] = tick.run]
           /\ sent' = sent \o tick.cmds
           /\ thens' = thens \cup
                 {Len(sent) + k : k \in {j \in 1..Len(tick.cmds) :
                                           tick.cmds[j].op = "changePreviewInput"}}
           /\ last' = TellCount("tick", tick.branch, run)
    /\ UNCHANGED <<inProgress, now, atemInstance, isConnected, levelTrackingActive,
                   audioLevels, autoSwitch, links, calls, samplesSeen,
                   runsStarted>>

(* .then(() => atemInstance!.autoTransition(me)); with atemInstance null the *)
(* call throws inside the chain and the .catch logs it.                     *)
PreviewResolved(k) ==
    /\ k \in thens
    /\ thens' = thens \ {k}
    /\ IF atemInstance = NULL
       THEN /\ sent' = sent
            /\ last' = Tell("previewResolved", "error")
       ELSE /\ sent' = Append(sent, [op |-> "autoTransition", source |-> NULL,
                                     me |-> sent[k].me, box |-> NULL,
                                     ssrcId |-> NULL, link |-> atemInstance,
                                     run |-> sent[k].run])
            /\ last' = Tell("previewResolved", "autoTransition")
    /\ UNCHANGED <<inProgress, now, atemInstance, isConnected, levelTrackingActive,
                   audioLevels, autoSwitch, timers, links, calls, samplesSeen,
                   runsStarted>>

PreviewRejected(k) ==
    /\ k \in thens
    /\ thens' = thens \ {k}
    /\ last' = Tell("previewRejected", "logged")
    /\ UNCHANGED <<inProgress, now, atemInstance, isConnected, levelTrackingActive,
                   audioLevels, autoSwitch, timers, links, calls, sent,
                   samplesSeen, runsStarted>>

CaughtRetries(k) == <<sent[k]>>

(* What a .catch handler of lines 345-370 sends: it only logs. *)
Caught(k) == <<>>

(* The promise of command k rejects and its .catch runs.  A command that    *)
(* resolves has no continuation, the preview command apart, so only         *)
(* rejections are steps; the preview command's own is PreviewRejected.      *)
CommandRejected(k) ==
    /\ k \in 1..Len(sent)
    /\ sent[k].op # "changePreviewInput"
    /\ sent' = sent \o Caught(k)
    /\ last' = Tell("commandRejected", "logged")
    /\ UNCHANGED <<inProgress, now, atemInstance, isConnected, levelTrackingActive,
                   audioLevels, autoSwitch, timers, links, calls, thens,
                   samplesSeen, runsStarted>>

---------------------------------------------------------------------------
(* The device link (atem-connection's Atem objects) and its handlers.       *)
(* A link is "connecting" after connect(), "up" after it emitted            *)
(* 'connected', "down" after it emitted 'disconnected' (it reconnects by    *)
(* itself), "closing" once disconnect() was called on it and "closed" when  *)
(* that call is over.  Whether disconnect() makes the link emit             *)
(* 'disconnected' is the library's choice: both outcomes are modelled.      *)

NewLink == [state |-> "connecting", listeners |-> 0, sendReq |-> 0]

LinkIds == 1..Len(links)

(* The guard of startAudioLevelTracking (line 56), with isConnected = connected *)
TrackingStarts(connected) ==
    ~(levelTrackingActive \/ atemInstance = NULL \/ ~connected)

(* Lines 58-88: a listener is attached and level sending is requested. *)
StartAudioLevelTracking(lnks, connected) ==
    IF TrackingStarts(connected)
    THEN [lnks EXCEPT ![atemInstance].listeners = @ + 1,
                      ![atemInstance].sendReq = @ + 1]
    ELSE lnks

(* atemInstance = new Atem(); the three handlers; connect() *)
CreateLink(lnks) ==
    /\ links' = Append(lnks, NewLink)
    /\ atemInstance' = Len(lnks) + 1

(* disconnect() called on link i *)
Closing(lnks, i) ==
    IF lnks[i].state = "closed" THEN lnks
    ELSE [lnks EXCEPT ![i].state = "closing"]

ConnectAtem ==
    /\ IF atemInstance # NULL /\ isConnected
       THEN /\ links' = Closing(links, atemInstance)
            /\ calls' = calls \cup {[op |-> "connectAtem", link |-> atemInstance]}
            /\ UNCHANGED atemInstance
       ELSE /\ CreateLink(links)
            /\ UNCHANGED calls
    /\ last' = Tell("connectAtem", "pending")
    /\ UNCHANGED <<inProgress, now, isConnected, levelTrackingActive, audioLevels, autoSwitch,
                   timers, sent, thens, samplesSeen, runsStarted>>

(* connectAtem after `await atemInstance.disconnect()' *)
ConnectAtemResume(c) ==
    /\ c \in calls
    /\ c.op = "connectAtem"
    /\ links[c.link].state \in {"closing", "closed"}
    /\ calls' = calls \ {c}
    /\ CreateLink([links EXCEPT ![c.link].state = "closed"])
    /\ last' = Tell("connectAtem", "pending")
    /\ UNCHANGED <<inProgress, now, isConnected, levelTrackingActive, audioLevels, autoSwitch,
                   timers, sent, thens, samplesSeen, runsStarted>>

DisconnectAtem ==
    /\ IF atemInstance # NULL
       THEN /\ links' = Closing(links, atemInstance)
            /\ calls' = calls \cup {[op |-> "disconnectAtem", link |-> atemInstance]}
            /\ last' = Tell("disconnectAtem", "pending")
       ELSE /\ UNCHANGED <<links, calls>>
            /\ last' = Tell("disconnectAtem", "noConnection")
    /\ UNCHANGED <<inProgress, now, atemInstance, isConnected, levelTrackingActive,
                   audioLevels, autoSwitch, timers, sent, thens, samplesSeen,
                   runsStarted>>

(* disconnectAtem after the await: isConnected = false; atemInstance = null *)
DisconnectAtemResume(c) ==
    /\ c \in calls
    /\ c.op = "disconnectAtem"
    /\ links[c.link].state \in {"closing", "closed"}
    /\ calls' = calls \ {c}
    /\ links' = [links EXCEPT ![c.link].state = "closed"]
    /\ isConnected' = FALSE
    /\ atemInstance' = NULL
    /\ last' = Tell("disconnectAtem", "disconnected")
    /\ UNCHANGED <<inProgress, now, levelTrackingActive, audioLevels, autoSwitch, timers,
                   sent, thens, samplesSeen, runsStarted>>

(* 'connected' handler: isConnected = true; startAudioLevelTracking() *)
OnConnected(i) ==
    /\ i \in LinkIds
    /\ links[i].state \in {"connecting", "down"}
    /\ isConnected' = TRUE
    /\ links' = StartAudioLevelTracking([links EXCEPT ![i].state = "up"], TRUE)
    /\ last' = Tell("connected", IF TrackingStarts(TRUE) THEN "tracking" ELSE "ok")
    /\ UNCHANGED <<inProgress, now, atemInstance, levelTrackingActive, audioLevels, autoSwitch,
                   timers, calls, sent, thens, samplesSeen, runsStarted>>

(* 'error' handler: isConnected = false *)
OnError(i) ==
    /\ i \in LinkIds
    /\ links[i].state \in {"connecting", "up", "down"}
    /\ isConnected' = FALSE
    /\ last' = Tell("error", "ok")
    /\ UNCHANGED <<inProgress, now, atemInstance, levelTrackingActive, audioLevels, autoSwitch,
                   timers, links, calls, sent, thens, samplesSeen, runsStarted>>

(* 'disconnected' handler (lines 498-503); it reports whether it stopped a  *)
(* run and how many level records it dropped.                               *)
OnDisconnected(i) ==
    /\ i \in LinkIds
    /\ links[i].state \in {"up", "closing"}
    /\ links' = [links EXCEPT ![i].state =
                    IF links[i].state = "up" THEN "down" ELSE "closed"]
    /\ isConnected' = FALSE
    /\ levelTrackingActive' = FALSE
    /\ audioLevels' = <<>>
    /\ IF autoSwitch # NULL THEN ClearRun ELSE UNCHANGED <<timers, autoSwitch>>
    /\ last' = TellCount("disconnected",
                         IF autoSwitch # NULL THEN "stoppedRun" ELSE "idle",
                         Len(audioLevels))
    /\ UNCHANGED <<inProgress, now, atemInstance, calls, sent, thens, samplesSeen, runsStarted>>

(* startFairlightMixerSendLevels() settled: lines 89-92 *)
SendLevelsResolved(i) ==
    /\ i \in LinkIds
    /\ links[i].sendReq > 0
    /\ links[i].state = "up"
    /\ links' = [links EXCEPT ![i].sendReq = @ - 1]
    /\ levelTrackingActive' = TRUE
    /\ last' = Tell("sendLevels", "resolved")
    /\ UNCHANGED <<inProgress, now, atemInstance, isConnected, audioLevels, autoSwitch, timers,
                   calls, sent, thens, samplesSeen, runsStarted>>

SendLevelsRejected(i) ==
    /\ i \in LinkIds
    /\ links[i].sendReq > 0
    /\ links' = [links EXCEPT ![i].sendReq = @ - 1]
    /\ last' = Tell("sendLevels", "rejected")
    /\ UNCHANGED <<inProgress, now, atemInstance, isConnected, levelTrackingActive, audioLevels,
                   autoSwitch, timers, calls, sent, thens, samplesSeen, runsStarted>>

(* 'levelChanged' emitted by link i: every listener attached to it runs. *)
OnLevelChanged(i, type, index, left, right) ==
    /\ i \in LinkIds
    /\ links[i].state = "up"
    /\ links[i].listeners > 0
    /\ samplesSeen' = samplesSeen + (IF type = "source" THEN links[i].listeners ELSE 0)
    /\ audioLevels' = Deliver(links[i].listeners, audioLevels, type, index, left, right)
    /\ last' = Quiet
    /\ UNCHANGED <<inProgress, now, atemInstance, isConnected, levelTrackingActive, autoSwitch,
                   timers, links, calls, sent, thens, runsStarted>>

---------------------------------------------------------------------------
(* Spec: the whole module from load, two links at most, small inputs.        *)

Horizon(quanta) == StartClock + quanta * Quantum

Handles == {1, 2}
Levels == {-1000}
SourceInputs == {2}
LevelTypes == {"source", "master"}

OptionSet ==
    { Opt(<<2, 3>>, NULL, 0, 0, "auto", "undefined") }

Next ==
    \/ Advance(Quantum) /\ now' <= Horizon(MaxQuanta)
    \/ ConnectAtem /\ LinkIds' \subseteq Handles
    \/ \E c \in calls : ConnectAtemResume(c) /\ LinkIds' \subseteq Handles
    \/ DisconnectAtem
    \/ \E c \in calls : DisconnectAtemResume(c)
    \/ \E i \in LinkIds :
          OnConnected(i) /\ \A j \in LinkIds : links'[j].listeners <= MaxListeners
    \/ \E i \in LinkIds : OnError(i)
    \/ \E i \in LinkIds : OnDisconnected(i)
    \/ \E i \in LinkIds : SendLevelsResolved(i)
    \/ \E i \in LinkIds : SendLevelsRejected(i)
    \/ \E i \in LinkIds, type \in LevelTypes, index \in SourceInputs,
          left \in Levels, right \in Levels :
          OnLevelChanged(i, type, index, left, right)
              /\ samplesSeen' <= LifecycleSamples
    \/ \E options \in OptionSet : StartAutoSwitch(options) /\ runsStarted' <= MaxRuns
    \/ StopAutoSwitch
    \/ \E run \in DOMAIN timers : TimerFire(run)
    \/ \E k \in thens : PreviewResolved(k)
    \/ \E k \in thens : PreviewRejected(k)

Spec == Init /\ [][Next]_vars

---------------------------------------------------------------------------
(* The engine on an established connection with level tracking active       *)
(* (connectAtem, 'connected', level sending acknowledged), the link staying *)
(* up: the state the specifications below start from.                       *)

InitEngine ==
    /\ now = StartClock
    /\ atemInstance = 1
    /\ isConnected = TRUE
    /\ levelTrackingActive = TRUE
    /\ audioLevels = <<>>
    /\ autoSwitch = NULL
    /\ timers = NoTimers
    /\ links = <<[state |-> "up", listeners |-> 1, sendReq |-> 0]>>
    /\ calls = {}
    /\ sent = <<>>
    /\ thens = {}
    /\ samplesSeen = 0
    /\ runsStarted = 0
    /\ last = Tell("sendLevels", "resolved")
    /\ inProgress = NoneInProgress

(* Samples, start, stop and ticks, for runs that cut. *)
EngineNext(options, inputs, levels, quanta) ==
    \/ Advance(Quantum) /\ now' <= Horizon(quanta)
    \/ \E index \in inputs, left \in levels, right \in levels :
          OnLevelChanged(1, "source", index, left, right)
              /\ samplesSeen' <= MaxSamples
    \/ \E o \in options : StartAutoSwitch(o) /\ runsStarted' <= MaxRuns
    \/ StopAutoSwitch
    \/ \E run \in DOMAIN timers : TimerFire(run)

(* SpecCooldown: default hold and cooldown, two speakers. *)
CooldownOptions == { Opt(<<2, 3>>, NULL, NULL, NULL, "undefined", "undefined") }
CooldownNext == EngineNext(CooldownOptions, {2, 3}, {-1000, -800}, CooldownQuanta)
SpecCooldown == InitEngine /\ [][CooldownNext]_vars

(* SpecMargin: no hold, no cooldown, levels around the stickiness margin. *)
MarginOptions == { Opt(<<2, 3>>, NULL, 0, 0, "cut", "program") }
MarginNext == EngineNext(MarginOptions, {2, 3}, {-1000, -801, -800}, MarginQuanta)
SpecMargin == InitEngine /\ [][MarginNext]_vars

(* SpecStale: a horizon beyond the staleness window. *)
StaleOptions == { Opt(<<2, 3>>, NULL, 0, 0, "cut", "program") }
StaleNext == EngineNext(StaleOptions, {2, 3}, {-1000, -800}, StaleQuanta)
SpecStale == InitEngine /\ [][StaleNext]_vars

(* SpecStop: runs that switch with the mix transition, whose second command *)
(* waits for the first to settle; a run ends only by stopAutoSwitch.        *)
StopOptions == { Opt(<<2, 3>>, NULL, 0, 0, "auto", "program") }
StopNext ==
    \/ EngineNext(StopOptions, {2, 3}, {-1000, -800}, StopQuanta)
    \/ \E k \in thens : PreviewResolved(k)
    \/ \E k \in thens : PreviewRejected(k)
SpecStop == InitEngine /\ [][StopNext]_vars

(* SpecModes: host + super source runs, the host being input 7 (the         *)
(* default) or input 3.                                                     *)
ModesOptions ==
    { Opt(<<3, 7>>, NULL, 0, 0, "undefined", "host_ssrc"),
      Opt(<<3, 7>>, 3, 0, 0, "undefined", "host_ssrc") }
ModesNext == EngineNext(ModesOptions, {3, 7}, {-1000, -800}, ModesQuanta)
SpecModes == InitEngine /\ [][ModesNext]_vars

(* SpecScenario: a run in program mode that cuts, candidates 1, 2 and 3,    *)
(* hold 1000 ms, cooldown 2000 ms, started at T0 with input 2 already       *)
(* reporting -1000 (the record stays fresh over the whole horizon, and      *)
(* further samples of -1000 may come at any time); input 3 reports -1200 at *)
(* any time, or -800 from T0 + 1500 ms on.  Time advances by the poll       *)
(* interval and every tick fires at its due time.                           *)
T0 == StartClock
ScenarioOptions == { Opt(<<1, 2, 3>>, NULL, 1000, 2000, "cut", "program") }
Due == \E r \in DOMAIN timers : now >= timers[r].nextFire
ScenarioNext ==
    \/ OnLevelChanged(1, "source", 2, -1000, -1000) /\ samplesSeen' <= MaxSamples
    \/ \E o \in ScenarioOptions :
          StartAutoSwitch(o) /\ now = T0 /\ HasLevel(2)
    \/ \E level \in {-1200, -800} :
          /\ OnLevelChanged(1, "source", 3, level, level)
          /\ samplesSeen' <= MaxSamples
          /\ HasLevel(2)
          /\ level = -800 => now >= T0 + 1500
    \/ /\ Advance(DefaultIntervalMs)
       /\ autoSwitch # NULL
       /\ ~Due
       /\ now' <= T0 + ScenarioPolls * DefaultIntervalMs
    \/ \E run \in DOMAIN timers : TimerFire(run)
SpecScenario == InitEngine /\ [][ScenarioNext]_vars

(* SpecReconnect: a run that outlives a link error and a reconnection: the  *)
(* 'error' handler clears isConnected and leaves the run alone, and         *)
(* connectAtem then opens a second link.  One sample more than MaxSamples   *)
(* is exact here, a record's first sample being stored undivided.           *)
ReconnectOptions == { Opt(<<2, 3>>, NULL, 0, 0, "cut", "program") }
ReconnectNext ==
    \/ Advance(Quantum) /\ now' <= Horizon(ReconnectQuanta)
    \/ \E i \in LinkIds, index \in {2, 3}, level \in {-1000, -800} :
          OnLevelChanged(i, "source", index, level, level)
              /\ samplesSeen' <= MaxSamples + 1
    \/ \E o \in ReconnectOptions : StartAutoSwitch(o) /\ runsStarted' <= MaxRuns
    \/ \E run \in DOMAIN timers : TimerFire(run)
    \/ \E i \in LinkIds : OnError(i)
    \/ ConnectAtem /\ LinkIds' \subseteq Handles
    \/ \E c \in calls : ConnectAtemResume(c) /\ LinkIds' \subseteq Handles
    \/ \E i \in LinkIds :
          OnConnected(i) /\ \A j \in LinkIds : links'[j].listeners <= MaxListeners
SpecReconnect == InitEngine /\ [][ReconnectNext]_vars

(* SpecProgram: program mode with either transition; the staging command of *)
(* the mix transition settles either way, at any later time.                *)
ProgramOptions ==
    { Opt(<<2, 3>>, NULL, 0, 0, "cut", "program"),
      Opt(<<2, 3>>, NULL, 0, 0, "auto", "undefined") }
ProgramNext ==
    \/ EngineNext(ProgramOptions, {2, 3}, {-1000, -800}, ProgramQuanta)
    \/ \E k \in thens : PreviewResolved(k)
    \/ \E k \in thens : PreviewRejected(k)
SpecProgram == InitEngine /\ [][ProgramNext]_vars

(* SpecBox: super source box runs, on the default box (1 of super source 0) *)
(* or on box 0 of super source 1.                                           *)
BoxOptions ==
    { Opt(<<2, 3>>, NULL, 0, 0, "undefined", "ssrc_box"),
      [Opt(<<2, 3>>, NULL, 0, 0, "auto", "ssrc_box")
          EXCEPT !.ssrcBox = 0, !.ssrcId = 1] }
BoxNext == EngineNext(BoxOptions, {2, 3}, {-1000, -800}, BoxQuanta)
SpecBox == InitEngine /\ [][BoxNext]_vars

(* SpecFailure: runs of every mode whose commands may be rejected. *)
FailureOptions ==
    { Opt(<<2, 3>>, NULL, 0, 0, "cut", "program"),
      Opt(<<2, 3>>, NULL, 0, 0, "auto", "program"),
      Opt(<<2, 3>>, 2, 0, 0, "cut", "host_ssrc"),
      Opt(<<2, 3>>, NULL, 0, 0, "cut", "ssrc_box") }
FailureNext ==
    \/ EngineNext(FailureOptions, {2, 3}, {-1000, -800}, FailureQuanta)
    \/ \E k \in thens : PreviewResolved(k)
    \/ \E k \in thens : PreviewRejected(k)
    \/ \E k \in 1..Len(sent) : CommandRejected(k)
SpecFailure == InitEngine /\ [][FailureNext]_vars

(* SpecRelisten: the level tracker alone on a link that may drop and come   *)
(* back.  Levels are multiples of 1000, which keeps the scaled average      *)
(* exact over the 2 * MaxSamples listener runs allowed.                     *)
RelistenNext ==
    \/ Advance(Quantum) /\ now' <= Horizon(RelistenQuanta)
    \/ \E type \in LevelTypes, index \in {2, 3}, level \in {-1000, -2000} :
          OnLevelChanged(1, type, index, level, level)
              /\ samplesSeen' <= 2 * MaxSamples
    \/ OnDisconnected(1)
    \/ OnConnected(1) /\ links'[1].listeners <= MaxListeners
    \/ SendLevelsResolved(1)
    \/ SendLevelsRejected(1)
SpecRelisten == InitEngine /\ [][RelistenNext]_vars

(* SpecTie: every input reports the same, constant level; the candidate     *)
(* list is given in ascending or in descending order.                       *)
TieOptions ==
    { Opt(<<2, 3>>, NULL, 0, 0, "cut", "program"),
      Opt(<<3, 2>>, NULL, 0, 0, "cut", "program") }
TieNext == EngineNext(TieOptions, {2, 3}, {-1000}, TieQuanta)
SpecTie == InitEngine /\ [][TieNext]_vars

(* SpecQuiet: a run on a link that may report an error (the flag goes down, *)
(* the run stays); a channel may fall below the silence threshold.          *)
QuietOptions == { Opt(<<2, 3>>, NULL, 0, 0, "cut", "program") }
QuietNext ==
    \/ Advance(Quantum) /\ now' <= Horizon(QuietQuanta)
    \/ \E index \in {2, 3}, level \in {-1000, -6000} :
          OnLevelChanged(1, "source", index, level, level)
              /\ samplesSeen' <= MaxSamples
    \/ \E o \in QuietOptions : StartAutoSwitch(o) /\ runsStarted' <= 1
    \/ \E run \in DOMAIN timers : TimerFire(run)
    \/ OnError(1)
SpecQuiet == InitEngine /\ [][QuietNext]_vars

(* SpecSticky: runs with the default cooldown; input 2 reports -3000 or   *)
(* the floor (which takes its average to -5100), or stops reporting; input  *)
(* 3 reports -4950 or the floor; the link may report an error.              *)
StickyOptions == { Opt(<<2, 3>>, NULL, 0, NULL, "cut", "program") }
StickyNext ==
    \/ Advance(Quantum) /\ now' <= Horizon(StickyQuanta)
    \/ \E index \in {2, 3} :
          \E level \in (IF index = 2 THEN {-3000, -10000} ELSE {-4950, -10000}) :
             OnLevelChanged(1, "source", index, level, level)
                 /\ samplesSeen' <= MaxSamples + 1
    \/ \E o \in StickyOptions : StartAutoSwitch(o) /\ runsStarted' <= 1
    \/ \E run \in DOMAIN timers : TimerFire(run)
    \/ OnError(1)
SpecSticky == InitEngine /\ [][StickyNext]_vars

(* SpecOutsider: input 4 reports like the candidates 2 and 3 and is not a   *)
(* candidate.                                                               *)
OutsiderOptions ==
    { Opt(<<2, 3>>, NULL, 0, 0, "cut", "program"),
      Opt(<<2, 3>>, 2, 0, 0, "auto", "host_ssrc") }
OutsiderNext == EngineNext(OutsiderOptions, {2, 3, 4}, {-1000, -800}, OutsiderQuanta)
SpecOutsider == InitEngine /\ [][OutsiderNext]_vars

(* SpecHost: host + super source runs on the default candidate list or a    *)
(* caller's, the host being the default (7), a listed input (2) or an       *)
(* input beyond the default list (9).                                       *)
HostOptions ==
    { Opt(Undefined, NULL, 0, 0, "cut", "host_ssrc"),
      Opt(Undefined, 9, 0, 0, "cut", "host_ssrc"),
      Opt(<<2, 3>>, NULL, 0, 0, "cut", "host_ssrc"),
      Opt(<<2, 3>>, 2, 0, 0, "cut", "host_ssrc") }
HostNext == EngineNext(HostOptions, {2, 3}, {-1000, -800}, HostQuanta)
SpecHost == InitEngine /\ [][HostNext]_vars

---------------------------------------------------------------------------
(* The listener and the tick write by write.  Both are synchronous          *)
(* callbacks (neither holds an await), which the event loop runs one at a   *)
(* time, each to its return: a callback begins only when none is in         *)
(* progress.                                                                *)

Preemptive == TRUE

RunToCompletion ==
    /\ inProgress.listener.pc = 0
    /\ inProgress.tick.run = NULL

(* 'levelChanged' of a source is taken up by the listener. *)
ListenerBegin(index, left, right) ==
    /\ links[1].state = "up"
    /\ links[1].listeners > 0
    /\ inProgress.listener.pc = 0
    /\ RunToCompletion
    /\ inProgress' = [inProgress EXCEPT
          !.listener = [index |-> index, peak |-> Max(left, right), pc |-> 1]]
    /\ samplesSeen' = samplesSeen + 1
    /\ last' = Quiet
    /\ UNCHANGED <<now, atemInstance, isConnected, levelTrackingActive, audioLevels,
                   autoSwitch, timers, links, calls, sent, thens, runsStarted>>

(* The next write of the listener: a new record is created whole by the one *)
(* set(); an existing one gets its samples, its smoothedLevel, its          *)
(* recentPeak and its lastUpdate, in this order.                            *)
ListenerStep ==
    /\ inProgress.listener.pc # 0
    /\ LET f   == inProgress.listener
           hit == {k \in 1..Len(audioLevels) : audioLevels[k].input = f.index}
           k   == CHOOSE j \in hit : TRUE
           to(pc) == [inProgress EXCEPT !.listener.pc = pc]
           done == [inProgress EXCEPT !.listener = NoListener]
       IN  IF hit = {}
           THEN /\ audioLevels' = Append(audioLevels,
                                         [input         |-> f.index,
                                          samples       |-> <<f.peak>>,
                                          smoothedLevel |-> f.peak * Scale,
                                          recentPeak    |-> f.peak,
                                          lastUpdate    |-> now])
                /\ inProgress' = done
           ELSE CASE f.pc = 1 ->
                       /\ audioLevels' = [audioLevels EXCEPT ![k].samples =
                                             PushSample(@, f.peak)]
                       /\ inProgress' = to(2)
                  [] f.pc = 2 ->
                       /\ audioLevels' = [audioLevels EXCEPT ![k].smoothedLevel =
                                             Ema(f.peak, @)]
                       /\ inProgress' = to(3)
                  [] f.pc = 3 ->
                       /\ audioLevels' = [audioLevels EXCEPT ![k].recentPeak = f.peak]
                       /\ inProgress' = to(4)
                  [] f.pc = 4 ->
                       /\ audioLevels' = [audioLevels EXCEPT ![k].lastUpdate = now]
                       /\ inProgress' = done
    /\ last' = Quiet
    /\ UNCHANGED <<now, atemInstance, isConnected, levelTrackingActive, autoSwitch,
                   timers, links, calls, sent, thens, samplesSeen, runsStarted>>

(* The timer's callback begins and reads the levels. *)
TickRead(run) ==
    /\ run \in DOMAIN timers
    /\ now >= timers[run].nextFire
    /\ inProgress.tick.run = NULL
    /\ RunToCompletion
    /\ inProgress' = [inProgress EXCEPT
          !.tick = [run |-> run, levels |-> audioLevels]]
    /\ last' = Quiet
    /\ UNCHANGED <<now, atemInstance, isConnected, levelTrackingActive, audioLevels,
                   autoSwitch, timers, links, calls, sent, thens, samplesSeen,
                   runsStarted>>

(* The callback decides, writes the run's state, dispatches and returns. *)
TickWrite ==
    /\ inProgress.tick.run # NULL
    /\ LET run  == inProgress.tick.run
           tick == PollTick(run)
       IN  /\ timers' = [timers EXCEPT ![run] = tick.run]
           /\ sent' = sent \o tick.cmds
           /\ thens' = thens \cup
                 {Len(sent) + k : k \in {j \in 1..Len(tick.cmds) :
                                           tick.cmds[j].op = "changePreviewInput"}}
           /\ last' = TellCount("tick", tick.branch, run)
    /\ inProgress' = [inProgress EXCEPT !.tick = NoTick]
    /\ UNCHANGED <<now, atemInstance, isConnected, levelTrackingActive,
                   audioLevels, autoSwitch, links, calls, samplesSeen,
                   runsStarted>>

(* SpecAtomic: one run that cuts, samples and ticks in any interleaving the *)
(* event loop admits; time passes between callbacks.                        *)
AtomicOptions == { Opt(<<2, 3>>, NULL, 0, 0, "cut", "program") }
AtomicNext ==
    \/ Advance(Quantum) /\ inProgress = NoneInProgress /\ now' <= Horizon(AtomicQuanta)
    \/ \E index \in {2, 3}, level \in {-1000, -800} :
          ListenerBegin(index, level, level) /\ samplesSeen' <= MaxSamples + 1
    \/ ListenerStep
    \/ \E o \in AtomicOptions :
          StartAutoSwitch(o) /\ inProgress = NoneInProgress /\ runsStarted' <= 1
    \/ \E run \in DOMAIN timers : TickRead(run)
    \/ TickWrite
SpecAtomic == InitEngine /\ [][AtomicNext]_vars

---------------------------------------------------------------------------
(* Helpers of the properties *)

(* The runs alive before and after a step. *)
Surviving == DOMAIN timers \cap DOMAIN timers'

(* The step confirmed a switch in run r. *)
Confirms(r) == timers'[r].switchCount # timers[r].switchCount

(* The commands the step handed to the link. *)
NewlySent == SubSeq(sent', Len(sent) + 1, Len(sent'))

(* The step was a firing of run r's interval callback. *)
Fired(r) == last'.op = "tick" /\ last'.count = r /\ r \in Surviving

(* Run r after a firing that did nothing but re-arm the timer. *)
OnlyRearmed(r) ==
    /\ timers'[r] = [timers[r] EXCEPT !.nextFire = timers'[r].nextFire]
    /\ sent' = sent
    /\ thens' = thens

---------------------------------------------------------------------------
(* C1: within one run, a confirmed switch sets currentSpeaker, increments   *)
(* switchCount by one and stamps lastSwitchAt with the time of the tick,    *)
(* and it happens at least cooldownMs after the previous confirmed switch   *)
(* of the run; a tick less than cooldownMs after the last confirmed switch  *)
(* changes nothing and dispatches nothing.                                  *)
C1_StepOk(r) ==
    LET a == timers[r]
        b == timers'[r]
    IN  /\ (b.switchCount # a.switchCount \/ b.lastSwitchAt # a.lastSwitchAt
              \/ b.currentSpeaker # a.currentSpeaker)
           => /\ Fired(r)
              /\ b.switchCount = a.switchCount + 1
              /\ b.lastSwitchAt = now
              /\ b.currentSpeaker # NULL
              /\ (a.switchCount > 0 => now - a.lastSwitchAt >= a.cooldownMs)
        /\ (Fired(r) /\ a.switchCount > 0 /\ now - a.lastSwitchAt < a.cooldownMs)
           => OnlyRearmed(r)

C1_CooldownBetweenSwitches == [][\A r \in Surviving : C1_StepOk(r)]_vars

(* A second switch was confirmed in a run with a positive cooldown. *)
C1_Witness ==
    \E r \in DOMAIN timers :
        /\ timers[r].switchCount = 2
        /\ timers[r].cooldownMs > 0
        /\ last = TellCount("tick", "switch", r)

(* A tick fell into the cooldown. *)
C1_WitnessCooldownTick ==
    \E r \in DOMAIN timers :
        /\ last = TellCount("tick", "cooldown", r)
        /\ timers[r].pendingSpeaker = NULL

---------------------------------------------------------------------------
(* C3: at a tick (connected, outside cooldown) where the confirmed speaker  *)
(* has a smoothed level L2 above the silence threshold and the loudest      *)
(* candidate, another channel, has instantaneous level L1: if L1 - L2 < 200 *)
(* (199 included) pending is cleared and nothing else changes; if           *)
(* L1 - L2 >= 200 (200 included) the candidate becomes or stays pending, or *)
(* is confirmed when it was already pending for holdMs.                     *)
Challenge(st) ==
    LET loud == Loudest(st.candidates)
    IN  [input  |-> loud.input,
         active |-> /\ st.currentSpeaker # NULL
                    /\ loud.input # NULL
                    /\ loud.input # st.currentSpeaker
                    /\ getSmoothedLevel(st.currentSpeaker) > SILENCE_THRESHOLD * Scale,
         lead   |-> IF st.currentSpeaker = NULL THEN 0
                    ELSE loud.peak * Scale - getSmoothedLevel(st.currentSpeaker)]

C3_StepOk(r) ==
    LET a  == timers[r]
        b  == timers'[r]
        ch == Challenge(a)
    IN  (Fired(r) /\ atemInstance # NULL /\ isConnected /\ ~InCooldown(a) /\ ch.active)
        => IF ch.lead < StickinessMargin * Scale
           THEN /\ b = [a EXCEPT !.nextFire = b.nextFire, !.pendingSpeaker = NULL,
                                 !.unbroken = TRUE]
                /\ sent' = sent
           ELSE \/ /\ b.pendingSpeaker = ch.input
                   /\ b.currentSpeaker = a.currentSpeaker
                   /\ sent' = sent
                \/ /\ a.pendingSpeaker = ch.input
                   /\ now - a.pendingSince >= a.holdMs
                   /\ b.currentSpeaker = ch.input

C3_WitnessEligible ==
    \E r \in DOMAIN timers :
        /\ last = TellCount("tick", "pending", r)
        /\ Challenge(timers[r]).active
        /\ Challenge(timers[r]).lead = StickinessMargin * Scale
        /\ timers[r].pendingSpeaker = Challenge(timers[r]).input

(* The challenger was confirmed at a lead of exactly 200 over the channel   *)
(* it replaced.                                                             *)
C3_WitnessConfirmed ==
    \E r \in DOMAIN timers :
        /\ last = TellCount("tick", "switch", r)
        /\ Len(sent) = 2
        /\ getSmoothedLevel(sent[1].source) > SILENCE_THRESHOLD * Scale
        /\ getInstantaneousPeak(timers[r].currentSpeaker) * Scale
              - getSmoothedLevel(sent[1].source) = StickinessMargin * Scale

---------------------------------------------------------------------------
(* C8: a channel with no record, or whose last sample is more than          *)
(* LEVEL_WINDOW_MS old, reads as -10000 for the instantaneous and for the   *)
(* smoothed level whatever it stores, is in no ranked list (include-all or  *)
(* not), is not the loudest candidate of any run, and is not the channel a  *)
(* tick just made pending, kept pending or confirmed.                       *)
Silenced(input) == ~HasLevel(input) \/ Stale(LevelOf(input))

RankedLists ==
    { getActiveInputsByAudioLevel(c, all) :
        c \in {Undefined, <<2, 3>>, <<3, 2>>, <<2>>, <<3>>}, all \in BOOLEAN }

C8_StaleReadsSilent ==
    \A input \in 1..8 :
        Silenced(input) =>
            /\ getInstantaneousPeak(input) = SilentLevel
            /\ getSmoothedLevel(input) = SilentLevel * Scale
            /\ \A list \in RankedLists : \A k \in 1..Len(list) : list[k].input # input
            /\ \A r \in DOMAIN timers :
                  /\ Loudest(timers[r].candidates).input # input
                  /\ last = TellCount("tick", "pending", r)
                        => timers[r].pendingSpeaker # input
                  /\ last = TellCount("tick", "holding", r)
                        => timers[r].pendingSpeaker # input
                  /\ last = TellCount("tick", "switch", r)
                        => timers[r].currentSpeaker # input

(* A tick made the quieter fresh channel pending while a stale record       *)
(* stores a louder level, above the threshold.                              *)
C8_Witness ==
    \E r \in DOMAIN timers : \E k \in 1..Len(audioLevels) :
        /\ last = TellCount("tick", "pending", r)
        /\ Stale(audioLevels[k])
        /\ InList(timers[r].candidates, audioLevels[k].input)
        /\ audioLevels[k].recentPeak > SILENCE_THRESHOLD
        /\ audioLevels[k].recentPeak > getInstantaneousPeak(timers[r].pendingSpeaker)
        /\ getActiveInputsByAudioLevel(Undefined, TRUE)
              = <<[input |-> timers[r].pendingSpeaker,
                   level |-> getSmoothedLevel(timers[r].pendingSpeaker)]>>

---------------------------------------------------------------------------
(* C4: in every reachable state a poll timer is live exactly when the run   *)
(* state is non-null, and then it is the only one; startAutoSwitch called   *)
(* while a run is active reports an error and leaves the run (its timer,    *)
(* configuration, speaker, pending state, counters and times) as it was.    *)
C4_OneTimer == DOMAIN timers = (IF autoSwitch = NULL THEN {} ELSE {autoSwitch})

C4_StartWhileActive ==
    (last'.op = "startAutoSwitch" /\ autoSwitch # NULL) =>
        /\ last'.ret = "alreadyRunning"
        /\ timers' = timers
        /\ autoSwitch' = autoSwitch

C4_AtMostOneRun == []C4_OneTimer /\ [][C4_StartWhileActive]_vars

(* A second start was refused while a run that had already switched was     *)
(* holding a pending speaker.                                               *)
C4_Witness ==
    /\ last = Tell("startAutoSwitch", "alreadyRunning")
    /\ autoSwitch # NULL
    /\ timers[autoSwitch].switchCount > 0

C4_WitnessPending ==
    /\ last = Tell("startAutoSwitch", "alreadyRunning")
    /\ autoSwitch # NULL
    /\ timers[autoSwitch].pendingSpeaker # NULL

---------------------------------------------------------------------------
(* C5: startAutoSwitch creates the run and its timer exactly when no run is *)
(* active, a device link is held and flagged connected, and level tracking  *)
(* is flagged active; otherwise it returns an error and changes nothing.    *)
C5_StartStep ==
    last'.op = "startAutoSwitch" =>
        /\ last'.ret = "started" <=>
              /\ autoSwitch = NULL
              /\ atemInstance # NULL /\ isConnected
              /\ levelTrackingActive
        /\ last'.ret = "started" =>
              /\ autoSwitch' # NULL
              /\ autoSwitch' \notin DOMAIN timers
              /\ DOMAIN timers' = DOMAIN timers \cup {autoSwitch'}
              /\ timers'[autoSwitch'].nextFire = now + timers'[autoSwitch'].intervalMs
        /\ last'.ret # "started" =>
              /\ last'.ret \in {"alreadyRunning", "notConnected", "notTracking"}
              /\ UNCHANGED <<now, atemInstance, isConnected, levelTrackingActive,
                             audioLevels, autoSwitch, timers, links, calls, sent,
                             thens, samplesSeen, runsStarted>>

C5_StartExactlyWhenReady == [][C5_StartStep]_vars

C5_Witness ==
    /\ last = Tell("startAutoSwitch", "started")
    /\ Len(audioLevels) > 0

C5_WitnessNotConnected ==
    /\ last = Tell("startAutoSwitch", "notConnected")
    /\ levelTrackingActive
    /\ Len(audioLevels) > 0

C5_WitnessNotTracking ==
    /\ last = Tell("startAutoSwitch", "notTracking")
    /\ Len(audioLevels) > 0

---------------------------------------------------------------------------
(* C6: once stopAutoSwitch has removed a run, no tick of that run executes  *)
(* and no command issued on behalf of that run reaches the device, whatever *)
(* the mode and the transition, including commands a tick before the stop   *)
(* had arranged to send later.                                              *)
C6_StepOk ==
    /\ last'.op = "tick" => last'.count \in DOMAIN timers
    /\ \A k \in 1..Len(NewlySent) : NewlySent[k].run \in DOMAIN timers

C6_NothingAfterStop == [][C6_StepOk]_vars

---------------------------------------------------------------------------
(* C7: the 'disconnected' handler leaves no run (no timer, run state null)  *)
(* and no level record, so every reading starts from silence afterwards.    *)
C7_StepOk ==
    last'.op = "disconnected" =>
        /\ autoSwitch' = NULL
        /\ timers' = NoTimers
        /\ audioLevels' = <<>>
        /\ ~isConnected' /\ ~levelTrackingActive'

C7_AfterDisconnect ==
    last.op = "disconnected" =>
        /\ autoSwitch = NULL
        /\ timers = NoTimers
        /\ getActiveInputsByAudioLevel(Undefined, TRUE) = <<>>
        /\ \A input \in 1..8 : /\ getInstantaneousPeak(input) = SilentLevel
                               /\ getSmoothedLevel(input) = SilentLevel * Scale
                               /\ Loudest(<<input>>).input = NULL

C7_DisconnectStopsAndClears == []C7_AfterDisconnect /\ [][C7_StepOk]_vars

(* The handler stopped a run and dropped level records. *)
C7_Witness ==
    /\ last.op = "disconnected"
    /\ last.ret = "stoppedRun"
    /\ last.count > 0

---------------------------------------------------------------------------
(* C10: a host + super source run that confirms its host sends exactly one  *)
(* command, the program input set to the host; confirming any other channel *)
(* it sends exactly two, first the super source box set to that channel,    *)
(* then the program input set to 6000; a tick that confirms nothing sends   *)
(* nothing.                                                                 *)
C10_StepOk(r) ==
    Fired(r) /\ timers[r].mode = "host_ssrc" =>
        LET st == timers[r]
            speaker == timers'[r].currentSpeaker
        IN  IF ~Confirms(r) THEN NewlySent = <<>>
            ELSE IF speaker = st.hostInput
            THEN /\ Len(NewlySent) = 1
                 /\ NewlySent[1].op = "changeProgramInput"
                 /\ NewlySent[1].source = st.hostInput
                 /\ NewlySent[1].me = st.me
            ELSE /\ Len(NewlySent) = 2
                 /\ NewlySent[1].op = "setSuperSourceBoxSettings"
                 /\ NewlySent[1].source = speaker
                 /\ NewlySent[1].box = st.ssrcBox
                 /\ NewlySent[1].ssrcId = st.ssrcId
                 /\ NewlySent[2].op = "changeProgramInput"
                 /\ NewlySent[2].source = SuperSourceInput
                 /\ NewlySent[2].me = st.me

C10_HostHybridDispatch == [][\A r \in Surviving : C10_StepOk(r)]_vars

(* Host 7 was confirmed, then guest 3. *)
C10_Witness ==
    /\ last.op = "tick" /\ last.ret = "switch"
    /\ Len(sent) = 3
    /\ sent[1].op = "changeProgramInput" /\ sent[1].source = DefaultHost
    /\ sent[2].op = "setSuperSourceBoxSettings" /\ sent[2].source = 3
    /\ sent[3].op = "changeProgramInput" /\ sent[3].source = SuperSourceInput

(* With input 3 as the host, guest 7 went to the box. *)
C10_WitnessOtherHost ==
    /\ last.op = "tick" /\ last.ret = "switch"
    /\ Len(sent) = 2
    /\ sent[1].op = "setSuperSourceBoxSettings" /\ sent[1].source = DefaultHost
    /\ sent[2].source = SuperSourceInput

---------------------------------------------------------------------------
(* C9, as stated: in the scenario of SpecScenario the run has confirmed     *)
(* input 2 once the tick due 1000 ms after the start has fired, with        *)
(* exactly one command (program input to 2), and nothing more is sent       *)
(* before 3000 ms.                                                          *)
C9_ConfirmsAtHold ==
    \A r \in DOMAIN timers :
        /\ (now = T0 + 1000 /\ ~Due) =>
              /\ timers[r].currentSpeaker = 2
              /\ Len(sent) = 1
              /\ sent[1].op = "changeProgramInput" /\ sent[1].source = 2
        /\ now < T0 + 3000 => Len(sent) <= 1

(* C9, as the code has it: the hold runs from the first tick, 250 ms after  *)
(* the start, so input 2 is confirmed by the tick due at 1250 ms and not    *)
(* before; that tick sends the one command (program input to 2), and until  *)
(* 3000 ms nothing more is sent and the speaker stays 2, also when input 3  *)
(* is louder from 1500 ms on.                                               *)
C9_ConfirmsAfterHoldFromFirstPoll ==
    \A r \in DOMAIN timers :
        /\ (now < T0 + 1250 \/ (now = T0 + 1250 /\ Due)) =>
              /\ timers[r].currentSpeaker = NULL
              /\ sent = <<>>
        /\ ((now = T0 + 1250 /\ ~Due) \/ (now > T0 + 1250 /\ now < T0 + 3000)) =>
              /\ timers[r].currentSpeaker = 2
              /\ timers[r].switchCount = 1
              /\ timers[r].lastSwitchAt = T0 + 1250
              /\ Len(sent) = 1
              /\ sent[1].op = "changeProgramInput" /\ sent[1].source = 2

(* The confirming tick, at 1250 ms. *)
C9_Witness ==
    /\ now = T0 + 1250
    /\ last.op = "tick" /\ last.ret = "switch"
    /\ Len(sent) = 1

(* Input 3 louder, and the run still on input 2 at 2750 ms. *)
C9_WitnessLouder ==
    /\ now = T0 + 2750
    /\ last.op = "tick" /\ last.ret = "cooldown"
    /\ getInstantaneousPeak(3) = -800
    /\ Len(sent) = 1

---------------------------------------------------------------------------
(* C2: a tick confirms a switch to c only if c was the pending candidate,   *)
(* was the loudest candidate at every firing of the run's timer since it    *)
(* became pending, and has been pending for at least holdMs; a tick that    *)
(* makes another candidate pending restarts the hold from now and confirms  *)
(* nothing.                                                                 *)
C2_StepOk(r) ==
    Fired(r) =>
        /\ Confirms(r) =>
              /\ timers[r].pendingSpeaker = timers'[r].currentSpeaker
              /\ timers[r].unbroken
              /\ Loudest(timers[r].candidates).input = timers'[r].currentSpeaker
              /\ now - timers[r].pendingSince >= timers[r].holdMs
        /\ (timers'[r].pendingSpeaker # NULL
               /\ timers'[r].pendingSpeaker # timers[r].pendingSpeaker) =>
              /\ timers'[r].pendingSpeaker = Loudest(timers[r].candidates).input
              /\ timers'[r].pendingSince = now
              /\ ~Confirms(r)

C2_ContinuouslyLoudest == [][\A r \in Surviving : C2_StepOk(r)]_vars

---------------------------------------------------------------------------
(* C11: in program mode a confirmed switch that cuts sends exactly one      *)
(* command, the program input set to the new speaker; one that mixes sends  *)
(* only the preview input set to the new speaker, and autoTransition is     *)
(* sent only by the continuation of a preview command that resolved, once,  *)
(* on the same mix effect; a preview command that is rejected sends nothing.*)
C11_TickOk(r) ==
    Fired(r) /\ timers[r].mode = "program" =>
        LET st == timers[r]
            speaker == timers'[r].currentSpeaker
        IN  IF ~Confirms(r) THEN NewlySent = <<>> /\ thens' = thens
            ELSE /\ Len(NewlySent) = 1
                 /\ NewlySent[1].source = speaker
                 /\ NewlySent[1].me = st.me
                 /\ IF st.transition = "cut"
                    THEN /\ NewlySent[1].op = "changeProgramInput"
                         /\ thens' = thens
                    ELSE /\ NewlySent[1].op = "changePreviewInput"
                         /\ thens' = thens \cup {Len(sent')}

C11_SettleOk ==
    /\ \A j \in 1..Len(NewlySent) :
          NewlySent[j].op = "autoTransition" =>
              /\ last'.op = "previewResolved"
              /\ Len(NewlySent) = 1
              /\ \E k \in thens \ thens' :
                    /\ thens' = thens \ {k}
                    /\ sent[k].op = "changePreviewInput"
                    /\ sent[k].me = NewlySent[j].me
                    /\ sent[k].run = NewlySent[j].run
    /\ last'.op = "previewRejected" => NewlySent = <<>>
    /\ last'.op \in {"previewResolved", "previewRejected"} =>
          Cardinality(thens') = Cardinality(thens) - 1

C11_ProgramDispatch ==
    [][C11_SettleOk /\ \A r \in Surviving : C11_TickOk(r)]_vars

(* A mix: the preview command, and after it resolved the transition. *)
C11_Witness ==
    /\ last = Tell("previewResolved", "autoTransition")
    /\ Len(sent) = 2
    /\ sent[1].op = "changePreviewInput"
    /\ sent[2].op = "autoTransition"

(* A rejected preview command: nothing follows it. *)
C11_WitnessRejected ==
    /\ last = Tell("previewRejected", "logged")
    /\ Len(sent) = 1
    /\ sent[1].op = "changePreviewInput"
    /\ thens = {}

C11_WitnessCut ==
    /\ last.op = "tick" /\ last.ret = "switch"
    /\ Len(sent) = 1
    /\ sent[1].op = "changeProgramInput"
    /\ thens = {}

---------------------------------------------------------------------------
(* C12: a super source box run sends, for every confirmed switch, exactly   *)
(* one command, the configured box of the configured super source set to    *)
(* the new speaker, and sends nothing on other ticks; no command of such a  *)
(* run ever sets the program or the preview input or starts a transition.   *)
C12_StepOk(r) ==
    Fired(r) /\ timers[r].mode = "ssrc_box" =>
        IF ~Confirms(r) THEN NewlySent = <<>>
        ELSE /\ Len(NewlySent) = 1
             /\ NewlySent[1].op = "setSuperSourceBoxSettings"
             /\ NewlySent[1].source = timers'[r].currentSpeaker
             /\ NewlySent[1].box = timers[r].ssrcBox
             /\ NewlySent[1].ssrcId = timers[r].ssrcId

C12_OnlyBoxCommands ==
    /\ thens = {}
    /\ \A k \in 1..Len(sent) : sent[k].op = "setSuperSourceBoxSettings"

C12_BoxDispatch ==
    []C12_OnlyBoxCommands /\ [][\A r \in Surviving : C12_StepOk(r)]_vars

(* Two confirmed switches of one run on box 0 of super source 1. *)
C12_Witness ==
    /\ last.op = "tick" /\ last.ret = "switch"
    /\ Len(sent) = 2
    /\ sent[1].box = 0 /\ sent[1].ssrcId = 1
    /\ sent[2].run = sent[1].run
    /\ sent[2].source # sent[1].source

---------------------------------------------------------------------------
(* C13: when a command sent for a confirmed switch is rejected, the run and *)
(* its timer stay as they were (speaker, switch count, time of the last     *)
(* switch, pending candidate, next firing), nothing is sent again and the   *)
(* rest of the module state is untouched; the rejection ends in the .catch. *)
C13_StepOk ==
    last'.op \in {"commandRejected", "previewRejected"} =>
        /\ last'.ret = "logged"
        /\ sent' = sent
        /\ UNCHANGED <<now, atemInstance, isConnected, levelTrackingActive,
                       audioLevels, autoSwitch, timers, links, calls,
                       samplesSeen, runsStarted>>

C13_FailureIsLogged == [][C13_StepOk]_vars

(* A rejected command of a live run that has switched once and whose timer  *)
(* is armed.                                                                *)
C13_Witness ==
    /\ last = Tell("commandRejected", "logged")
    /\ autoSwitch # NULL
    /\ timers[autoSwitch].switchCount = 1
    /\ timers[autoSwitch].currentSpeaker = sent[1].source
    /\ timers[autoSwitch].lastSwitchAt > 0
    /\ timers[autoSwitch].nextFire > now

C13_WitnessPreview ==
    /\ last = Tell("previewRejected", "logged")
    /\ autoSwitch # NULL
    /\ timers[autoSwitch].switchCount = 1

---------------------------------------------------------------------------
(* C14: every sample the link delivers for a channel is applied to that     *)
(* channel's record exactly once: a first sample seeds smoothedLevel, a     *)
(* later one gives alpha * sample + (1 - alpha) * smoothedLevel, recentPeak *)
(* is the sample; the records of other channels are untouched, and nothing  *)
(* but a delivered sample (or the clearing on 'disconnected') changes a     *)
(* record, the passing of time in particular.                               *)
HasRecord(levels, input) == \E k \in 1..Len(levels) : levels[k].input = input

Record(levels, input) ==
    levels[CHOOSE k \in 1..Len(levels) : levels[k].input = input]

C14_SampleOk(index) ==
    /\ HasRecord(audioLevels', index)
    /\ LET new  == Record(audioLevels', index)
           peak == new.recentPeak
       IN  /\ new.lastUpdate = now
           /\ IF HasLevel(index)
              THEN /\ new.smoothedLevel = Ema(peak, LevelOf(index).smoothedLevel)
                   /\ new.samples = PushSample(LevelOf(index).samples, peak)
              ELSE /\ new.smoothedLevel = peak * Scale
                   /\ new.samples = <<peak>>
    /\ \A other \in (1..8) \ {index} :
          /\ HasRecord(audioLevels', other) <=> HasLevel(other)
          /\ HasLevel(other) => Record(audioLevels', other) = LevelOf(other)

C14_StepOk ==
    IF samplesSeen' # samplesSeen
    THEN \E index \in 1..8 : C14_SampleOk(index)
    ELSE audioLevels' = audioLevels \/ last'.op = "disconnected"

C14_EmaOncePerSample == [][C14_StepOk]_vars

---------------------------------------------------------------------------
(* C15: for a candidate set (or none given) the selector returns exactly    *)
(* the candidates with a fresh record whose smoothed level is above the     *)
(* silence threshold, or every fresh candidate with include-all, each once  *)
(* with its smoothed level, loudest first, equal levels by ascending input. *)
Selected(candidateInputs, includeAll) ==
    { input \in 1..8 :
        /\ HasLevel(input)
        /\ ~Stale(LevelOf(input))
        /\ (candidateInputs = Undefined \/ InList(candidateInputs, input))
        /\ (includeAll \/ LevelOf(input).smoothedLevel > SILENCE_THRESHOLD * Scale) }

C15_Content(list, candidateInputs, includeAll) ==
    /\ { list[k].input : k \in 1..Len(list) } = Selected(candidateInputs, includeAll)
    /\ Len(list) = Cardinality(Selected(candidateInputs, includeAll))
    /\ \A k \in 1..Len(list) : list[k].level = LevelOf(list[k].input).smoothedLevel

C15_Ordered(list) ==
    \A j, k \in 1..Len(list) :
        j < k => \/ list[j].level > list[k].level
                 \/ list[j].level = list[k].level /\ list[j].input < list[k].input

C15_SelectorContract ==
    \A c \in {Undefined, <<2, 3>>, <<3, 2>>, <<2>>, <<3>>}, all \in BOOLEAN :
        /\ C15_Content(getActiveInputsByAudioLevel(c, all), c, all)
        /\ C15_Ordered(getActiveInputsByAudioLevel(c, all))

---------------------------------------------------------------------------
(* C16: when several candidates are equally loud at a tick, the candidate   *)
(* the tick makes pending or confirms is the one of lowest input number,    *)
(* whatever the order of the candidate list; and with levels that never     *)
(* change a run confirms at most one switch.                                *)
Tied(st) ==
    { c \in { st.candidates[k] : k \in 1..Len(st.candidates) } :
        getInstantaneousPeak(c) = Loudest(st.candidates).peak }

C16_PickOk(r) ==
    Fired(r) =>
        /\ last'.ret = "pending" =>
              \A c \in Tied(timers[r]) : timers'[r].pendingSpeaker <= c
        /\ last'.ret = "switch" =>
              \A c \in Tied(timers[r]) : timers'[r].currentSpeaker <= c

C16_OneSwitch == \A r \in DOMAIN timers : timers[r].switchCount <= 1

C16_TieLowestIndex ==
    []C16_OneSwitch /\ [][\A r \in Surviving : C16_PickOk(r)]_vars

---------------------------------------------------------------------------
(* C17: stopAutoSwitch on an active run removes its timer and the run state *)
(* and reports the run's switch count, which is the number of switches the  *)
(* run confirmed (here, of commands it sent: one per switch); with no run   *)
(* it reports that and changes nothing.  A run that starts, after a stop    *)
(* too, has no speaker, no pending candidate, a switch count of 0 and no    *)
(* cooldown in effect.                                                      *)
SentBy(run) == { k \in 1..Len(sent) : sent[k].run = run }

C17_StepOk ==
    /\ (last'.op = "stopAutoSwitch" /\ autoSwitch # NULL) =>
          /\ last'.ret = "stopped"
          /\ last'.count = timers[autoSwitch].switchCount
          /\ last'.count = Cardinality(SentBy(autoSwitch))
          /\ autoSwitch' = NULL
          /\ timers' = NoTimers
    /\ (last'.op = "stopAutoSwitch" /\ autoSwitch = NULL) =>
          /\ last'.ret = "notRunning"
          /\ UNCHANGED <<autoSwitch, timers>>
    /\ last'.op = "stopAutoSwitch" =>
          UNCHANGED <<now, atemInstance, isConnected, levelTrackingActive,
                      audioLevels, links, calls, sent, thens, samplesSeen,
                      runsStarted>>
    /\ last' = Tell("startAutoSwitch", "started") =>
          /\ timers'[autoSwitch'].currentSpeaker = NULL
          /\ timers'[autoSwitch'].pendingSpeaker = NULL
          /\ timers'[autoSwitch'].switchCount = 0
          /\ timers'[autoSwitch'].lastSwitchAt = 0
          /\ timers'[autoSwitch'].startedAt = now
          /\ ~InCooldown(timers'[autoSwitch'])
          /\ SentBy(autoSwitch') = {}

C17_StopDiscardsRun == [][C17_StepOk]_vars

(* A second run just started, the first one having been stopped after a     *)
(* switch.                                                                  *)
C17_Witness ==
    /\ last = Tell("startAutoSwitch", "started")
    /\ runsStarted = 2
    /\ Len(sent) = 1

C17_WitnessStopped ==
    /\ last = TellCount("stopAutoSwitch", "stopped", 2)
    /\ Len(sent) = 2

C17_WitnessNotRunning ==
    /\ last = Tell("stopAutoSwitch", "notRunning")
    /\ Len(sent) = 1

---------------------------------------------------------------------------
(* C18: getAutoSwitchStatus reports running exactly when a poll timer is    *)
(* scheduled; for a run that has confirmed nothing it reports running with  *)
(* no speaker and a switch count of 0; and the speaker and the count it     *)
(* reports are the run's: the count of the run's switch commands and the    *)
(* source of the last of them.                                              *)
Switches(run) == { k \in SentBy(run) : sent[k].op = "changePreviewInput" }

C18_StatusSnapshot ==
    /\ getAutoSwitchStatus.running <=> DOMAIN timers # {}
    /\ getAutoSwitchStatus.running =>
          /\ getAutoSwitchStatus.currentSpeaker = timers[autoSwitch].currentSpeaker
          /\ getAutoSwitchStatus.switchCount = timers[autoSwitch].switchCount
          /\ getAutoSwitchStatus.switchCount = Cardinality(Switches(autoSwitch))
          /\ IF Switches(autoSwitch) = {}
             THEN getAutoSwitchStatus.currentSpeaker = NULL
             ELSE getAutoSwitchStatus.currentSpeaker =
                      sent[CHOOSE k \in Switches(autoSwitch) :
                              \A j \in Switches(autoSwitch) : j <= k].source
    /\ ~getAutoSwitchStatus.running => getAutoSwitchStatus = [running |-> FALSE]

(* A run that has not confirmed anything, a pending candidate apart. *)
C18_Witness ==
    /\ getAutoSwitchStatus.running
    /\ getAutoSwitchStatus.currentSpeaker = NULL
    /\ getAutoSwitchStatus.switchCount = 0
    /\ timers[autoSwitch].pendingSpeaker # NULL

C18_WitnessSwitched ==
    /\ getAutoSwitchStatus.running
    /\ getAutoSwitchStatus.currentSpeaker = 2
    /\ getAutoSwitchStatus.switchCount = 1

C18_WitnessStoppedByLink ==
    /\ ~getAutoSwitchStatus.running
    /\ last.op = "disconnected" /\ last.ret = "stoppedRun"

---------------------------------------------------------------------------
(* C19: under every interleaving of samples and ticks, the tick decides on  *)
(* whole records and on the levels it read: when a tick begins to read, no  *)
(* record is between the first and the last write of a listener run (its    *)
(* recentPeak, smoothedLevel and lastUpdate come from one sample); while a  *)
(* tick is in progress no sample is taken up and the map does not change;   *)
(* and when the tick writes the run's pending and confirmed state, the map  *)
(* is the one it read.                                                      *)

TickInProgress == inProgress.tick.run # NULL
HalfUpdated == inProgress.listener.pc > 1

C19_TickAtomic ==
    [][ /\ (~TickInProgress /\ TickInProgress') => ~HalfUpdated
        /\ TickInProgress =>
              /\ audioLevels' = audioLevels
              /\ inProgress'.listener = inProgress.listener
        /\ (TickInProgress /\ ~TickInProgress') =>
              /\ audioLevels = inProgress.tick.levels
              /\ ~HalfUpdated ]_vars

(* A tick that confirmed a switch on levels whose records had been updated  *)
(* in place. *)
C19_Witness ==
    /\ last.op = "tick"
    /\ last.ret = "switch"
    /\ \E k \in 1..Len(audioLevels) : Len(audioLevels[k].samples) = 2

(* A tick in progress, having read a record updated in place. *)
C19_WitnessReading ==
    /\ TickInProgress
    /\ \E k \in 1..Len(inProgress.tick.levels) :
          Len(inProgress.tick.levels[k].samples) = 2

---------------------------------------------------------------------------
(* C20: the candidate list of every run in host + super source mode holds   *)
(* the run's host input, for the default list and for a caller's list, and  *)
(* for every host input.                                                    *)

C20_CandidatesIncludeHost ==
    \A r \in DOMAIN timers :
        timers[r].mode = "host_ssrc" =>
            InList(timers[r].candidates, timers[r].hostInput)

---------------------------------------------------------------------------
(* C21: however often startAudioLevelTracking is called ('connected' after  *)
(* a drop of the same link, after a failed request, or while an earlier     *)
(* request is pending), each link carries one 'levelChanged' listener at    *)
(* most.                                                                    *)

C21_OneListenerPerLink ==
    \A i \in LinkIds : links[i].listeners <= 1

---------------------------------------------------------------------------
(* C22: a confirmed switch is one firing of the run's callback that sets    *)
(* currentSpeaker to the pending candidate, clears the pending candidate,   *)
(* stamps lastSwitchAt with the time of the tick, adds one to switchCount   *)
(* and hands the commands of one dispatch for that speaker to the link,     *)
(* the state being advanced by then; no other step opens a dispatch, and    *)
(* switchCount is at all times the number of dispatches of the run.         *)

(* The commands that open a dispatch of the run: every dispatch has one. *)
Heads(run) ==
    { k \in 1..Len(sent) :
        /\ sent[k].run = run
        /\ \/ sent[k].op \in {"changePreviewInput", "setSuperSourceBoxSettings"}
           \/ sent[k].op = "changeProgramInput" /\ sent[k].source # SuperSourceInput }

C22_CountsDispatches ==
    \A r \in DOMAIN timers : timers[r].switchCount = Cardinality(Heads(r))

C22_StepOk(r) ==
    LET st == timers[r]
    IN  /\ Confirms(r) =>
              /\ Fired(r)
              /\ st.pendingSpeaker # NULL
              /\ timers'[r] = [st EXCEPT !.currentSpeaker = st.pendingSpeaker,
                                         !.pendingSpeaker = NULL,
                                         !.lastSwitchAt = now,
                                         !.switchCount = st.switchCount + 1,
                                         !.nextFire = now + st.intervalMs,
                                         !.unbroken = TRUE]
              /\ NewlySent = Dispatch(timers'[r], r, timers'[r].currentSpeaker)
              /\ NewlySent # <<>>
        /\ ~Confirms(r) => Heads(r)' = Heads(r)

C22_ConfirmedSwitch ==
    []C22_CountsDispatches /\ [][\A r \in Surviving : C22_StepOk(r)]_vars

(* A run in host + super source mode confirmed a guest: one switch, one     *)
(* dispatch, two commands.                                                  *)
C22_Witness ==
    /\ last.op = "tick" /\ last.ret = "switch"
    /\ \E r \in DOMAIN timers :
          /\ timers[r].mode = "host_ssrc"
          /\ timers[r].currentSpeaker = 3
          /\ timers[r].switchCount = 1
          /\ timers[r].pendingSpeaker = NULL
          /\ timers[r].lastSwitchAt = now
          /\ Cardinality(SentBy(r)) = 2

(* A run that mixes confirmed a speaker, and the transition followed. *)
C22_WitnessMix ==
    \E r \in DOMAIN timers :
        /\ timers[r].transition = "auto"
        /\ timers[r].switchCount = 1
        /\ Cardinality(SentBy(r)) = 2

---------------------------------------------------------------------------
(* C23: a firing outside the cooldown that finds no candidate above the     *)
(* silence threshold, or finds the loudest candidate to be the current      *)
(* speaker, leaves the run with no pending candidate, with currentSpeaker,  *)
(* switchCount and lastSwitchAt as they were, and sends nothing.            *)

(* The firing of run r met silence or the current speaker. *)
NothingToDo(st) ==
    /\ ~InCooldown(st)
    /\ Loudest(st.candidates).input \in {NULL, st.currentSpeaker}

C23_StepOk(r) ==
    (Fired(r) /\ NothingToDo(timers[r])) =>
        /\ timers'[r].pendingSpeaker = NULL
        /\ timers'[r].currentSpeaker = timers[r].currentSpeaker
        /\ timers'[r].switchCount = timers[r].switchCount
        /\ timers'[r].lastSwitchAt = timers[r].lastSwitchAt
        /\ sent' = sent

C23_QuietTickClearsPending == [][\A r \in Surviving : C23_StepOk(r)]_vars

---------------------------------------------------------------------------
(* C24: the stickiness margin needs an active current speaker.  A firing    *)
(* that finds a loudest candidate above the silence threshold other than    *)
(* the current speaker, while there is no current speaker or its smoothed   *)
(* level is at or below the threshold or its record is stale or absent,     *)
(* accepts the candidate whatever its lead.                                 *)

(* The run has no speaker that is still heard. *)
SpeakerInactive(st) ==
    \/ st.currentSpeaker = NULL
    \/ Silenced(st.currentSpeaker)
    \/ LevelOf(st.currentSpeaker).smoothedLevel <= SILENCE_THRESHOLD * Scale

Challenged(st) ==
    /\ SpeakerInactive(st)
    /\ Loudest(st.candidates).input \notin {NULL, st.currentSpeaker}

(* The firing is evaluated: the link is flagged connected and the run is    *)
(* not in its cooldown.                                                     *)
Evaluated(st) == atemInstance # NULL /\ isConnected /\ ~InCooldown(st)

(* C24 as stated, for every firing: the candidate is pending afterwards, or *)
(* confirmed if it was pending already.                                     *)
C24_AcceptedAtEveryTick ==
    [][\A r \in Surviving :
          (Fired(r) /\ Challenged(timers[r])) =>
              Loudest(timers[r].candidates).input \in
                  {timers'[r].pendingSpeaker, timers'[r].currentSpeaker}]_vars

(* C24 as the code has it, for every evaluated firing: a candidate not yet  *)
(* pending becomes pending with the hold starting now and nothing is sent;  *)
(* one already pending stays pending with its hold running, or is confirmed *)
(* once the hold has elapsed.                                               *)
C24_StepOk(r) ==
    LET st   == timers[r]
        loud == Loudest(st.candidates).input
    IN  (Fired(r) /\ Evaluated(st) /\ Challenged(st)) =>
            IF loud # st.pendingSpeaker
            THEN /\ timers'[r].pendingSpeaker = loud
                 /\ timers'[r].pendingSince = now
                 /\ timers'[r].currentSpeaker = st.currentSpeaker
                 /\ sent' = sent
            ELSE IF HoldElapsed(st)
            THEN /\ timers'[r].currentSpeaker = loud
                 /\ timers'[r].pendingSpeaker = NULL
            ELSE /\ timers'[r].pendingSpeaker = loud
                 /\ timers'[r].pendingSince = st.pendingSince
                 /\ timers'[r].currentSpeaker = st.currentSpeaker

C24_AcceptedWhenEvaluated == [][\A r \in Surviving : C24_StepOk(r)]_vars

(* Input 3, 150 above the smoothed level of the silent speaker 2, is        *)
(* pending. *)
C24_Witness ==
    /\ last.op = "tick" /\ last.ret = "pending"
    /\ \E r \in DOMAIN timers :
          /\ timers[r].currentSpeaker = 2
          /\ timers[r].pendingSpeaker = 3
          /\ HasLevel(2) /\ ~Stale(LevelOf(2))
          /\ LevelOf(2).smoothedLevel = -5100 * Scale
          /\ LevelOf(3).recentPeak = -4950

(* Input 3 is pending, quieter than the last report of speaker 2, whose     *)
(* record is stale. *)
C24_WitnessStale ==
    /\ last.op = "tick" /\ last.ret = "pending"
    /\ \E r \in DOMAIN timers :
          /\ timers[r].currentSpeaker = 2
          /\ timers[r].pendingSpeaker = 3
          /\ Stale(LevelOf(2))
          /\ LevelOf(2).smoothedLevel > LevelOf(3).recentPeak * Scale

(* Input 3 is pending with no speaker yet, its own smoothed level below the *)
(* silence threshold. *)
C24_WitnessOwnAverage ==
    /\ last.op = "tick" /\ last.ret = "pending"
    /\ \E r \in DOMAIN timers :
          /\ timers[r].currentSpeaker = NULL
          /\ timers[r].pendingSpeaker = 3
          /\ LevelOf(3).smoothedLevel <= SILENCE_THRESHOLD * Scale

---------------------------------------------------------------------------
(* C25: within a run, a candidate is never pending in the cooldown: a       *)
(* pending candidate of a run that has switched was taken up cooldownMs or  *)
(* more after that switch; a confirmation is a later firing than the one    *)
(* that took the candidate up, holdMs or more after it; hence two           *)
(* consecutive switches are cooldownMs + holdMs or more apart.              *)

C25_PendingAfterCooldown ==
    \A r \in DOMAIN timers :
        LET st == timers[r]
        IN  /\ InCooldown(st) => st.pendingSpeaker = NULL
            /\ (st.pendingSpeaker # NULL /\ st.lastSwitchAt > 0) =>
                  st.pendingSince >= st.lastSwitchAt + st.cooldownMs

C25_StepOk(r) ==
    LET st == timers[r]
    IN  Confirms(r) =>
            /\ st.pendingSpeaker # NULL
            /\ st.pendingSince < now
            /\ now - st.pendingSince >= st.holdMs
            /\ st.lastSwitchAt > 0 =>
                  now - st.lastSwitchAt >= st.cooldownMs + st.holdMs

C25_SwitchesApart ==
    []C25_PendingAfterCooldown /\ [][\A r \in Surviving : C25_StepOk(r)]_vars

(* The second switch of a run, cooldownMs + holdMs after the first was the  *)
(* earliest possible with ticks one second apart: pending since one holdMs. *)
C25_Witness ==
    /\ last.op = "tick" /\ last.ret = "switch"
    /\ \E r \in DOMAIN timers :
          /\ timers[r].switchCount = 2
          /\ timers[r].holdMs = DefaultHoldMs
          /\ timers[r].cooldownMs = DefaultCooldownMs
          /\ timers[r].pendingSince = now - DefaultHoldMs
          /\ now = StartClock + 2 * DefaultHoldMs + DefaultCooldownMs + DefaultHoldMs

---------------------------------------------------------------------------
(* C26: while the connection flag is down no run is active, no timer is     *)
(* live and the level map is empty, however the flag went down; the status  *)
(* never reports a run as running while its ticks are skipped.              *)

C26_DownMeansIdle ==
    ~isConnected =>
        /\ autoSwitch = NULL
        /\ timers = NoTimers
        /\ audioLevels = <<>>
        /\ ~getAutoSwitchStatus.running

---------------------------------------------------------------------------
(* C27: levelTrackingActive is set only while the connection flag is up,    *)
(* and only when level sending was requested on the current link (which     *)
(* then carries a listener), in every interleaving of connectAtem, the      *)
(* link's events, disconnectAtem and the settling of the request.           *)

C27_TrackingImpliesConnected ==
    levelTrackingActive =>
        /\ isConnected
        /\ atemInstance # NULL
        /\ links[atemInstance].listeners > 0

---------------------------------------------------------------------------
(* C28: a pending candidate differs from the current speaker; the pending   *)
(* candidate and the current speaker are candidates of the run, or none;    *)
(* and nothing that happens during a run (a tick, a sample, a settled or    *)
(* rejected command; the status query writes nothing at all) changes the    *)
(* run's candidates, host, mode, box, super source, mix effect, transition, *)
(* hold, cooldown, interval or start time.                                  *)

Configuration(st) ==
    <<st.candidates, st.hostInput, st.mode, st.ssrcBox, st.ssrcId, st.me,
      st.transition, st.holdMs, st.cooldownMs, st.intervalMs, st.startedAt>>

C28_SpeakersAreCandidates ==
    \A r \in DOMAIN timers :
        LET st == timers[r]
        IN  /\ st.pendingSpeaker # NULL =>
                  /\ st.pendingSpeaker # st.currentSpeaker
                  /\ InList(st.candidates, st.pendingSpeaker)
            /\ st.currentSpeaker # NULL => InList(st.candidates, st.currentSpeaker)

C28_RunInvariants ==
    /\ []C28_SpeakersAreCandidates
    /\ [][\A r \in Surviving :
             Configuration(timers'[r]) = Configuration(timers[r])]_vars

(* Candidate 2 was confirmed while input 4, no candidate, was the loudest   *)
(* input of all.                                                            *)
C28_Witness ==
    /\ last.op = "tick" /\ last.ret = "switch"
    /\ \E r \in DOMAIN timers :
          /\ timers[r].currentSpeaker = 2
          /\ LoudestOfAll(timers[r].candidates).input = 4

(* Candidate 3 is pending against speaker 2. *)
C28_WitnessPending ==
    \E r \in DOMAIN timers :
        /\ timers[r].currentSpeaker = 2
        /\ timers[r].pendingSpeaker = 3
        /\ timers[r].mode = "host_ssrc"

---------------------------------------------------------------------------
(* C29: in a run, currentSpeaker is none exactly when switchCount is 0 and  *)
(* exactly when lastSwitchAt is 0; a speaker once set is never unset;       *)
(* switchCount and lastSwitchAt never decrease; and every confirmed switch  *)
(* puts a different input on air than the one before.                       *)

C29_NoneIffZero ==
    \A r \in DOMAIN timers :
        /\ timers[r].currentSpeaker = NULL <=> timers[r].switchCount = 0
        /\ timers[r].currentSpeaker = NULL <=> timers[r].lastSwitchAt = 0

C29_StepOk(r) ==
    /\ timers[r].currentSpeaker # NULL => timers'[r].currentSpeaker # NULL
    /\ timers'[r].switchCount >= timers[r].switchCount
    /\ timers'[r].lastSwitchAt >= timers[r].lastSwitchAt
    /\ Confirms(r) <=> timers'[r].currentSpeaker # timers[r].currentSpeaker
    /\ Confirms(r) <=> timers'[r].lastSwitchAt # timers[r].lastSwitchAt

C29_SpeakerHistory ==
    []C29_NoneIffZero /\ [][\A r \in Surviving : C29_StepOk(r)]_vars

(* Input 3 replaced input 2 in the second switch of a run. *)
C29_Witness ==
    /\ last.op = "tick" /\ last.ret = "switch"
    /\ \E r \in DOMAIN timers :
          /\ timers[r].currentSpeaker = 3
          /\ timers[r].switchCount = 2
          /\ timers[r].lastSwitchAt = now
          /\ Len(sent) = 2 /\ sent[1].source = 2 /\ sent[2].source = 3

---------------------------------------------------------------------------
(* C30, as stated: commands reach the link only in a step that confirms a   *)
(* switch, and each of them names the speaker just confirmed as its source  *)
(* (the super source input for the program command of a host + super source *)
(* run that confirmed a guest).                                             *)

NamesSpeaker(cmd, st) ==
    \/ cmd.source = st.currentSpeaker
    \/ /\ cmd.op = "changeProgramInput"
       /\ cmd.source = SuperSourceInput
       /\ st.mode = "host_ssrc"
       /\ st.currentSpeaker # st.hostInput

C30_ConfirmOk(r) ==
    Confirms(r) =>
        \A k \in 1..Len(NewlySent) :
            /\ NewlySent[k].run = r
            /\ NamesSpeaker(NewlySent[k], timers'[r])

C30_OnlySwitchesSend ==
    [][ /\ NewlySent # <<>> => \E r \in Surviving : Confirms(r)
        /\ \A r \in Surviving : C30_ConfirmOk(r) ]_vars

(* C30, as the code has it: a firing that confirms nothing, startAutoSwitch *)
(* and stopAutoSwitch send nothing; the commands of a confirming firing     *)
(* name the new speaker as above; and the one other command is the          *)
(* autoTransition of a mixing run, which names a mix effect and no source   *)
(* and is sent when the run's preview command has been acknowledged, in a   *)
(* step of its own.                                                         *)
C30_StepOk ==
    /\ \A r \in Surviving :
          /\ C30_ConfirmOk(r)
          /\ (Fired(r) /\ ~Confirms(r)) => (sent' = sent /\ thens' = thens)
    /\ last'.op \in {"startAutoSwitch", "stopAutoSwitch"} => sent' = sent
    /\ NewlySent # <<>> =>
          \/ \E r \in Surviving : Confirms(r) /\ Fired(r)
          \/ /\ last'.op = "previewResolved"
             /\ Len(NewlySent) = 1
             /\ NewlySent[1].op = "autoTransition"
             /\ NewlySent[1].source = NULL
             /\ \E k \in thens \ thens' :
                   /\ sent[k].op = "changePreviewInput"
                   /\ NewlySent[1].me = sent[k].me
                   /\ NewlySent[1].run = sent[k].run

C30_SendsForSwitchesOnly == [][C30_StepOk]_vars

(* A firing that confirmed nothing ran while the preview command of the     *)
(* switch before it was still unacknowledged.                               *)
C30_Witness ==
    /\ last.op = "tick" /\ last.ret \in {"alreadyCurrent", "sticky", "pending"}
    /\ thens # {}
    /\ \E r \in DOMAIN timers : timers[r].switchCount = 1 /\ Len(sent) = 1

(* The transition of a mixing run went out after its acknowledged preview. *)
C30_WitnessTransition ==
    /\ last.op = "previewResolved"
    /\ Len(sent) = 2
    /\ sent[1].op = "changePreviewInput"
    /\ sent[2].op = "autoTransition" /\ sent[2].source = NULL

====
